---- MODULE Spec2Model ----
(***************************************************************************)
(* Model of AI_Check_Ingredient/api_server.py: the start-up initialisation *)
(* (initialize_model) over the shared cache directory, the hybrid scorer   *)
(* and aggregator (search_ai) and the POST /search handler                 *)
(* (search_endpoint).                                                      *)
(*                                                                         *)
(* Units.  Scores are integers: semantic and lexical scores in thousandths *)
(* (1000 = 1.0), section multipliers and ALPHA_SEM / MIN_CONFIDENCE in      *)
(* hundredths (105 = 1.05), confidence in tenths of a percent (500 = 50.0),*)
(* which is the resolution of round(final_score * 100, 1).                 *)
(*                                                                         *)
(* A Python value that may be None is a sequence: << >> is None (or a      *)
(* missing file), <<v>> is the value v.  An array, a data frame or an      *)
(* index is represented by its number of rows / vectors.                   *)
(***************************************************************************)
EXTENDS Integers, Sequences, FiniteSets, TLC

\* ------------------------------------------------------------------ bounds
\* Largest number of rows of the multivector CSV.
MaxRows == 3
\* Largest number of extra rows the left join with the cards table adds.
MaxExtra == 1

\* --------------------------------------------------------- configuration
MODEL_NAME == "sentence-transformers/distiluse-base-multilingual-cased-v2"
TOP_K_DEFAULT == 10
RECALL_K == 200
ALPHA_SEM == 75
MIN_CONFIDENCE == 50

None == << >>
Some(v) == <<v>>
Val(x) == x[1]

\* ---------------------------------------------------------------- state
VARIABLES
    pc,               \* position of the process in __main__ / initialize_model
    FAISS_AVAILABLE,  \* result of "import faiss" in the running process
    model,            \* global model:       None or the loaded model name
    embeddings,       \* global embeddings:  None or the number of vectors
    faiss_index,      \* global faiss_index: None or the number of vectors
    lookup_df,        \* global lookup_df:   None or the number of rows
    texts,            \* local len(texts) of the current initialize_model run
    lookup,           \* local len(lookup) of the current initialize_model run
    disk,             \* the four cache files of CACHE_DIR
    log,              \* which of "Loading cached embeddings" / "Building
                      \* embeddings" the running process printed last
    deleted,          \* cache files removed since the last process ended
    request,          \* the last call of search_ai / POST /search
    cands,            \* the recall candidates of the last search, in order
    response          \* what the last call returned or raised

vars == <<pc, FAISS_AVAILABLE, model, embeddings, faiss_index, lookup_df,
          texts, lookup, disk, log, deleted, request, cands, response>>

globals == <<model, embeddings, faiss_index, lookup_df>>
locals == <<texts, lookup>>
served == <<request, cands, response>>

\* The cache paths.
EMB_MULTI == "emb_multi.npy"
IDX_MULTI == "index_multi.faiss"
LOOKUP_MULTI == "lookup_multi.csv"
META_MULTI == "meta_multi.json"
CacheFiles == {EMB_MULTI, IDX_MULTI, LOOKUP_MULTI, META_MULTI}

exists(path) == disk[path] # None

NoRequest == [kind |-> "none"]
NoResponse ==
    [kind |-> "none", status |-> 0, error |-> "", query |-> "", results |-> << >>]

\* ------------------------------------------------------ scoring (pure)
Min(a, b) == IF a < b THEN a ELSE b
Max(a, b) == IF a > b THEN a ELSE b

\* SECTION_BOOST, in hundredths.
SECTION_BOOST == [CANON_LAT |-> 105, CANON_EN |-> 100, SYN_LAT |-> 95]

\* The section names the model draws from; those of CommonSections are the
\* ones for which section.startswith("COMMON_") is true.
CommonSections == {"COMMON_EN"}
Sections == {"CANON_LAT", "CANON_EN", "SYN_LAT", "COMMON_EN", "DESC"}

section_boost(section) ==
    IF section \in DOMAIN SECTION_BOOST THEN SECTION_BOOST[section]
    ELSE IF section \in CommonSections THEN 100
    ELSE 100

\* round(x, 1) of a percentage x = num / den tenths: Python rounds half to
\* even.  (Exact arithmetic; the float product can differ from it only in the
\* last unit of a value that lies within one ulp of a half.)
RoundHalfEven(num, den) ==
    LET q == num \div den
        r == num % den
    IN  IF 2 * r < den THEN q
        ELSE IF 2 * r > den THEN q + 1
        ELSE IF q % 2 = 0 THEN q ELSE q + 1

\* boosted_sem = sem_score * section_boost(section)
\* final_score = ALPHA_SEM * boosted_sem + (1 - ALPHA_SEM) * lex
\* confidence  = round(final_score * 100, 1), here in tenths of a percent.
Confidence(section, sem, lex) ==
    RoundHalfEven(ALPHA_SEM * sem * section_boost(section)
                    + (100 - ALPHA_SEM) * lex * 100,
                  10000)

\* One entry of hits for a recall candidate c = [pid, section, sem, lex].
Hit(c) ==
    [policy_item_id |-> c.pid,
     section        |-> c.section,
     semantic_score |-> c.sem,
     lexical_score  |-> c.lex,
     confidence     |-> Confidence(c.section, c.sem, c.lex)]

\* hits, in recall order.
Hits(c) == [i \in 1..Len(c) |-> Hit(c[i])]

\* conf_threshold = MIN_CONFIDENCE * 100, in tenths of a percent.
conf_threshold == MIN_CONFIDENCE * 10

\* best_by_entity is a dict: a sequence of hits in key insertion order, with
\* one entry per key.  KeyIndex is the position of pid, 0 when pid is not a key.
KeyIndex(best, pid) ==
    IF \E i \in 1..Len(best) : best[i].policy_item_id = pid
    THEN CHOOSE i \in 1..Len(best) : best[i].policy_item_id = pid
    ELSE 0

\* AggregateStep without the replacement of a key's hit by a better one: the
\* first qualifying hit of an entity stays.
AggregateStep_KeepFirst(best, h) ==
    IF KeyIndex(best, h.policy_item_id) = 0 /\ h.confidence >= conf_threshold
    THEN Append(best, h)
    ELSE best

\* AggregateStep collecting into a list instead of a dict keyed by entity.
AggregateStep_AppendAlways(best, h) ==
    IF h.confidence >= conf_threshold THEN Append(best, h) ELSE best

\* One iteration of "for h in hits": assigning to an existing key keeps the
\* key's position, assigning to a new key appends it.
AggregateStep(best, h) ==
    LET k == KeyIndex(best, h.policy_item_id)
    IN  IF k = 0 \/ h.confidence > best[k].confidence
        THEN IF h.confidence >= conf_threshold
             THEN IF k = 0 THEN Append(best, h)
                  ELSE [best EXCEPT ![k] = h]
             ELSE best
        ELSE best

RECURSIVE AggregateFrom(_, _, _)
AggregateFrom(best, hits, i) ==
    IF i > Len(hits) THEN best
    ELSE AggregateFrom(AggregateStep(best, hits[i]), hits, i + 1)

Aggregate(hits) == AggregateFrom(<< >>, hits, 1)

\* sorted(values, key=confidence, reverse=True): a stable sort, so hits of
\* equal confidence keep the order they have in values.
RECURSIVE InsertByConfidence(_, _)
InsertByConfidence(sorted, h) ==
    IF sorted = << >> THEN <<h>>
    ELSE IF Head(sorted).confidence >= h.confidence
         THEN <<Head(sorted)>> \o InsertByConfidence(Tail(sorted), h)
         ELSE <<h>> \o sorted

RECURSIVE SortFrom(_, _, _)
SortFrom(sorted, values, i) ==
    IF i > Len(values) THEN sorted
    ELSE SortFrom(InsertByConfidence(sorted, values[i]), values, i + 1)

SortByConfidence(values) == SortFrom(<< >>, values, 1)

\* results[:top_k]: a negative top_k counts from the end of the list.
Slice(results, top_k) ==
    LET n == Len(results)
        stop == IF top_k >= 0 THEN Min(top_k, n) ELSE Max(n + top_k, 0)
    IN  SubSeq(results, 1, stop)

Raise(msg) == [raised |-> TRUE, error |-> msg, results |-> << >>]
Return(res) == [raised |-> FALSE, error |-> "", results |-> res]

\* search_ai(query, top_k), given what recall delivered: the candidates c in
\* recall order, and whether an index it returned lies beyond lookup_df.
search_ai(c, top_k, outOfRange) ==
    IF model = None \/ embeddings = None \/ lookup_df = None
    THEN Raise("Model not initialized")
    ELSE IF outOfRange
    THEN Raise("single positional indexer is out-of-bounds")
    ELSE Return(Slice(SortByConfidence(Aggregate(Hits(c))), top_k))

\* ------------------------------------------------------------- recall
\* Candidate records [pid, section, sem, lex] that recall can deliver.
PolicyIds == {"X", "Y"}
\* (section, semantic score, lexical score) of a catalog row for a query;
\* their confidences are 103.8, 80.0, 60.0, 48.0, 50.0 and 40.6.
ScoreProfiles ==
    {[section |-> "CANON_LAT", sem |-> 1000, lex |-> 1000],
     [section |-> "COMMON_EN", sem |-> 800,  lex |-> 800],
     [section |-> "CANON_EN",  sem |-> 800,  lex |-> 0],
     [section |-> "DESC",      sem |-> 640,  lex |-> 0],
     [section |-> "CANON_EN",  sem |-> 600,  lex |-> 200],
     [section |-> "SYN_LAT",   sem |-> 500,  lex |-> 200]}
CandSpace ==
    {[pid |-> p, section |-> s.section, sem |-> s.sem, lex |-> s.lex] :
        p \in PolicyIds, s \in ScoreProfiles}
\* The single candidate record drawn while start-up is being explored.
ProbeSpace == {[pid |-> "X", section |-> "COMMON_EN", sem |-> 800, lex |-> 800]}

Initialized == model # None /\ embeddings # None /\ lookup_df # None

\* The number of vectors recall ranks: those of the FAISS index when one is
\* loaded, those of embeddings (cosine similarity) otherwise.
RecallSource ==
    IF FAISS_AVAILABLE /\ faiss_index # None THEN Val(faiss_index)
    ELSE Val(embeddings)

\* min(RECALL_K, len(lookup_df)) results are asked for.
RecallK == Min(RECALL_K, Val(lookup_df))

\* Both recall strategies return the rows by descending similarity.
Descending(c) == \A i \in 1..(Len(c) - 1) : c[i].sem >= c[i + 1].sem

\* The candidate lists recall can deliver: min(RecallK, RecallSource) rows
\* with a score each (an index asked for more vectors than it holds pads
\* with id -1 and the lowest float, a hit far below the floor, left out here).
RecallLists(space) ==
    IF Initialized
    THEN {c \in [1..Min(RecallK, RecallSource) -> space] : Descending(c)}
    ELSE {<< >>}

\* Whether a returned row id can lie beyond lookup_df (iloc then raises).
RecallOutOfRange ==
    IF Initialized /\ RecallK > 0 /\ RecallSource > Val(lookup_df)
    THEN BOOLEAN ELSE {FALSE}

\* ------------------------------------------------- process life cycle
Init ==
    /\ pc = "idle"
    /\ FAISS_AVAILABLE = FALSE
    /\ model = None
    /\ embeddings = None
    /\ faiss_index = None
    /\ lookup_df = None
    /\ texts = 0
    /\ lookup = 0
    /\ disk = [f \in CacheFiles |-> None]
    /\ log = "none"
    /\ deleted = {}
    /\ request = NoRequest
    /\ cands = << >>
    /\ response = NoResponse

\* The module is imported by a new process: "import faiss" succeeds or not,
\* the globals are None.
Launch ==
    /\ pc = "idle"
    /\ pc' = "imported"
    /\ FAISS_AVAILABLE' \in BOOLEAN
    /\ UNCHANGED <<globals, locals, disk, log, deleted, served>>

\* The process ends (normally, or killed at any point of initialize_model);
\* only the cache directory survives.
Kill ==
    /\ pc # "idle"
    /\ pc' = "idle"
    /\ FAISS_AVAILABLE' = FALSE
    /\ model' = None
    /\ embeddings' = None
    /\ faiss_index' = None
    /\ lookup_df' = None
    /\ texts' = 0
    /\ lookup' = 0
    /\ log' = "none"
    /\ deleted' = {}
    /\ request' = NoRequest
    /\ cands' = << >>
    /\ response' = NoResponse
    /\ UNCHANGED disk

\* A cache file is removed while no process runs.
DeleteArtifact ==
    /\ pc = "idle"
    /\ \E f \in CacheFiles :
        /\ exists(f)
        /\ disk' = [disk EXCEPT ![f] = None]
        /\ deleted' = deleted \cup {f}
    /\ UNCHANGED <<pc, FAISS_AVAILABLE, globals, locals, log, served>>

\* load_multivectors: mv has n rows; the left join with the de-duplicated
\* (policy_item_id, canonical) pairs of the cards table gives one row per
\* match, so lookup has n + extra rows when some policy_item_id of mv has
\* more than one canonical name in the cards table.
load_multivectors ==
    {r \in (0..MaxRows) \X (0..(MaxRows + MaxExtra)) :
        /\ r[2] >= r[1]
        /\ r[2] - r[1] <= MaxExtra
        /\ (r[1] = 0 => r[2] = 0)}

\* initialize_model, lines 99-106.
LoadModel ==
    /\ pc = "imported"
    /\ model' = Some(MODEL_NAME)
    /\ \E r \in load_multivectors :
        /\ texts' = r[1]
        /\ lookup' = r[2]
    /\ pc' = "check_cache"
    /\ UNCHANGED <<FAISS_AVAILABLE, embeddings, faiss_index, lookup_df, disk,
                   log, deleted, served>>

use_cache == exists(EMB_MULTI) /\ exists(LOOKUP_MULTI) /\ exists(META_MULTI)

MetaMatches ==
    LET meta == Val(disk[META_MULTI])
    IN  meta.row_count = texts /\ meta.model = MODEL_NAME

\* Lines 109-120: the cache is claimed.
CheckCacheHit ==
    /\ pc = "check_cache"
    /\ use_cache
    /\ MetaMatches
    /\ log' = "cached"
    /\ pc' = "load_emb"
    /\ UNCHANGED <<FAISS_AVAILABLE, globals, locals, disk, deleted, served>>

\* Lines 109-119: a file is missing, or the metadata do not match.
CheckCacheMiss ==
    /\ pc = "check_cache"
    /\ ~(use_cache /\ MetaMatches)
    /\ pc' = "build"
    /\ UNCHANGED <<FAISS_AVAILABLE, globals, locals, disk, log, deleted, served>>

\* Line 121.
LoadEmbeddings ==
    /\ pc = "load_emb"
    /\ embeddings' = disk[EMB_MULTI]
    /\ pc' = "load_lookup"
    /\ UNCHANGED <<FAISS_AVAILABLE, model, faiss_index, lookup_df, locals, disk,
                   log, deleted, served>>

\* Line 122.
LoadLookup ==
    /\ pc = "load_lookup"
    /\ lookup_df' = disk[LOOKUP_MULTI]
    /\ pc' = "load_idx"
    /\ UNCHANGED <<FAISS_AVAILABLE, model, embeddings, faiss_index, locals, disk,
                   log, deleted, served>>

\* Lines 124-131.
LoadIndex ==
    /\ pc = "load_idx"
    /\ faiss_index' = IF FAISS_AVAILABLE /\ exists(IDX_MULTI)
                      THEN disk[IDX_MULTI] ELSE faiss_index
    /\ pc' = "done"
    /\ UNCHANGED <<FAISS_AVAILABLE, model, embeddings, lookup_df, locals, disk,
                   log, deleted, served>>

\* Lines 116-133: reading one of the files raises; the exception is caught
\* and the run goes on to rebuild.
CacheError ==
    /\ \/ pc = "check_cache" /\ use_cache
       \/ pc \in {"load_emb", "load_lookup"}
       \/ pc = "load_idx" /\ FAISS_AVAILABLE /\ exists(IDX_MULTI)
    /\ pc' = "build"
    /\ UNCHANGED <<FAISS_AVAILABLE, globals, locals, disk, log, deleted, served>>

\* Lines 136-137.
BuildEmbeddings ==
    /\ pc = "build"
    /\ embeddings' = Some(texts)
    /\ log' = "building"
    /\ pc' = "save_emb"
    /\ UNCHANGED <<FAISS_AVAILABLE, model, faiss_index, lookup_df, locals, disk,
                   deleted, served>>

\* Line 140.
SaveEmbeddings ==
    /\ pc = "save_emb"
    /\ disk' = [disk EXCEPT ![EMB_MULTI] = embeddings]
    /\ pc' = "save_lookup"
    /\ UNCHANGED <<FAISS_AVAILABLE, globals, locals, log, deleted, served>>

\* Line 141.
SaveLookup ==
    /\ pc = "save_lookup"
    /\ disk' = [disk EXCEPT ![LOOKUP_MULTI] = Some(lookup)]
    /\ pc' = "save_meta"
    /\ UNCHANGED <<FAISS_AVAILABLE, globals, locals, log, deleted, served>>

\* Lines 142-143.
SaveMeta ==
    /\ pc = "save_meta"
    /\ disk' = [disk EXCEPT
                  ![META_MULTI] = Some([model |-> MODEL_NAME, row_count |-> texts])]
    /\ pc' = "build_idx"
    /\ UNCHANGED <<FAISS_AVAILABLE, globals, locals, log, deleted, served>>

\* Lines 145-151.
BuildIndex ==
    /\ pc = "build_idx"
    /\ IF FAISS_AVAILABLE
       THEN /\ faiss_index' = embeddings
            /\ disk' = [disk EXCEPT ![IDX_MULTI] = embeddings]
       ELSE UNCHANGED <<faiss_index, disk>>
    /\ pc' = "set_lookup"
    /\ UNCHANGED <<FAISS_AVAILABLE, model, embeddings, lookup_df, locals, log,
                   deleted, served>>

\* Lines 153-154.
SetLookup ==
    /\ pc = "set_lookup"
    /\ lookup_df' = Some(lookup)
    /\ pc' = "done"
    /\ UNCHANGED <<FAISS_AVAILABLE, model, embeddings, faiss_index, locals, disk,
                   log, deleted, served>>

\* search_ai(query, top_k) is called in the running process, with top_k drawn
\* from topks and the candidate records from space.  Under __main__ the server
\* starts after initialize_model has returned; a process that imports the
\* module (a WSGI server, a thread started beside initialize_model) can call
\* search_ai at any point, which is what this action allows.
CallSearch(space, topks) ==
    /\ pc # "idle"
    /\ request = NoRequest
    /\ \E top_k \in topks, c \in RecallLists(space), oob \in RecallOutOfRange :
        LET out == search_ai(c, top_k, oob)
        IN  /\ request' = [kind |-> "call", top_k |-> top_k]
            /\ cands' = c
            /\ response' = [kind |-> IF out.raised THEN "raise" ELSE "return",
                            status |-> 0,
                            error |-> out.error,
                            query |-> "",
                            results |-> out.results]
    /\ UNCHANGED <<pc, FAISS_AVAILABLE, globals, locals, disk, log, deleted>>

ProbeSearch == CallSearch(ProbeSpace, {TOP_K_DEFAULT})

\* The caller has its answer; the hits of the request are discarded.
Reply ==
    /\ request # NoRequest
    /\ request' = NoRequest
    /\ cands' = << >>
    /\ response' = NoResponse
    /\ UNCHANGED <<pc, FAISS_AVAILABLE, globals, locals, disk, log, deleted>>

Next ==
    \/ Launch
    \/ Kill
    \/ DeleteArtifact
    \/ LoadModel
    \/ CheckCacheHit
    \/ CheckCacheMiss
    \/ LoadEmbeddings
    \/ LoadLookup
    \/ LoadIndex
    \/ CacheError
    \/ BuildEmbeddings
    \/ SaveEmbeddings
    \/ SaveLookup
    \/ SaveMeta
    \/ BuildIndex
    \/ SetLookup
    \/ ProbeSearch
    \/ Reply

Spec == Init /\ [][Next]_vars

\* ------------------------------------------------------- POST /search
\* The query strings a body carries, and str.strip() on them.
QueryStrings == {"", "  ", " vitamin c "}
strip(s) ==
    CASE s = " vitamin c " -> "vitamin c"
      [] s = "  " -> ""
      [] OTHER -> s

\* The values of top_k a caller passes.
TopKs == (0 - MaxRows)..MaxRows

Absent == [type |-> "absent"]
JsonStr(s) == [type |-> "str", val |-> s]
JsonInt(i) == [type |-> "int", val |-> i]

\* Request bodies: not JSON at all, JSON that is not an object, or an object
\* with or without "query" (a string or a number) and "top_k".
Bodies ==
    {[json |-> j, query |-> Absent, top_k |-> Absent] :
        j \in {"invalid", "null", "array"}}
    \cup
    {[json |-> "object", query |-> q, top_k |-> t] :
        q \in {Absent, JsonInt(42)} \cup {JsonStr(s) : s \in QueryStrings},
        t \in {Absent} \cup {JsonInt(k) : k \in TopKs}}

Http(status, error, query, results) ==
    [kind |-> "http", status |-> status, error |-> error, query |-> query,
     results |-> results]

\* search_endpoint, given what recall delivers if search_ai is reached.  Every
\* exception of the try block, werkzeug's BadRequest included, is caught by
\* "except Exception" and answered with 500.
search_endpoint(body, c, oob) ==
    IF body.json = "invalid"
    THEN Http(500, "400 Bad Request: Failed to decode JSON object", "", << >>)
    ELSE IF body.json = "null"
    THEN Http(500, "'NoneType' object has no attribute 'get'", "", << >>)
    ELSE IF body.json = "array"
    THEN Http(500, "'list' object has no attribute 'get'", "", << >>)
    ELSE IF body.query.type = "int"
    THEN Http(500, "'int' object has no attribute 'strip'", "", << >>)
    ELSE
        LET query == IF body.query.type = "absent" THEN ""
                     ELSE strip(body.query.val)
            top_k == IF body.top_k.type = "absent" THEN TOP_K_DEFAULT
                     ELSE body.top_k.val
        IN  IF query = ""
            THEN Http(400, "Query parameter is required", "", << >>)
            ELSE LET out == search_ai(c, top_k, oob)
                 IN  IF out.raised THEN Http(500, out.error, "", << >>)
                     ELSE Http(200, "", query, out.results)

\* Whether the handler reaches the call of search_ai for this body.
ReachesSearch(body) ==
    /\ body.json = "object"
    /\ body.query.type = "str"
    /\ strip(body.query.val) # ""

PostSearch ==
    /\ pc # "idle"
    /\ request = NoRequest
    /\ \E body \in Bodies :
        \E c \in (IF ReachesSearch(body) THEN RecallLists(CandSpace) ELSE {<< >>}),
           oob \in (IF ReachesSearch(body) THEN RecallOutOfRange ELSE {FALSE}) :
            /\ request' = [kind |-> "post", body |-> body]
            /\ cands' = c
            /\ response' = search_endpoint(body, c, oob)
    /\ UNCHANGED <<pc, FAISS_AVAILABLE, globals, locals, disk, log, deleted>>

\* The service after a first start-up on an empty cache directory with a
\* catalog of n rows, each policy_item_id with at most one canonical name.
ServeInit ==
    \E n \in 0..MaxRows, faiss \in BOOLEAN :
        /\ pc = "done"
        /\ FAISS_AVAILABLE = faiss
        /\ model = Some(MODEL_NAME)
        /\ embeddings = Some(n)
        /\ faiss_index = IF faiss THEN Some(n) ELSE None
        /\ lookup_df = Some(n)
        /\ texts = n
        /\ lookup = n
        /\ disk = [f \in CacheFiles |->
                     IF f = META_MULTI
                     THEN Some([model |-> MODEL_NAME, row_count |-> n])
                     ELSE IF f = IDX_MULTI /\ ~faiss THEN None
                     ELSE Some(n)]
        /\ log = "building"
        /\ deleted = {}
        /\ request = NoRequest
        /\ cands = << >>
        /\ response = NoResponse

ServeNext == PostSearch \/ Reply

ServeSpec == ServeInit /\ [][ServeNext]_vars

\* ================================================================ claims
\* What the claims speak of, read off the state.
Served == response.kind = "http" /\ response.status = 200
Results == response.results
EffectiveTopK ==
    IF request.body.top_k.type = "absent" THEN TOP_K_DEFAULT
    ELSE request.body.top_k.val
CandidateHit(i) == Hit(cands[i])
HasCandidate(pid) == \E i \in 1..Len(cands) : cands[i].pid = pid
\* The highest confidence among the candidate hits of an entity.
BestConfidence(pid) ==
    CHOOSE v \in {CandidateHit(i).confidence : i \in 1..Len(cands)} :
        /\ \E i \in 1..Len(cands) :
              cands[i].pid = pid /\ CandidateHit(i).confidence = v
        /\ \A i \in 1..Len(cands) :
              cands[i].pid = pid => CandidateHit(i).confidence <= v
Qualifies(pid) == HasCandidate(pid) /\ BestConfidence(pid) >= 500
QualifyingEntities == {pid \in PolicyIds : Qualifies(pid)}
Returned(pid) == \E i \in 1..Len(Results) : Results[i].policy_item_id = pid
\* The first recall position whose hit is h.
PosOf(h) ==
    CHOOSE i \in 1..Len(cands) :
        /\ CandidateHit(i) = h
        /\ \A j \in 1..(i - 1) : CandidateHit(j) # h
\* No truncation took place: top_k is at least the number of candidates.
NotTruncated == EffectiveTopK >= Len(cands)

\* C1: for every integer top_k (0 and negative values included) the returned
\* list is no longer than top_k and no longer than the number of distinct
\* entities with a candidate hit of confidence >= 50.0.  No list is shorter
\* than 0, so for a negative top_k the bound is read in the way most
\* favourable to the code: no hit is returned.
C1_ResultSize ==
    Served =>
        /\ Len(Results) <= Max(EffectiveTopK, 0)
        /\ Len(Results) <= Cardinality(QualifyingEntities)

\* C2: every hit that search returns has a confidence within [0, 100], for
\* semantic and lexical scores within [0, 1] and every section.
C2_ConfidenceRange ==
    Served =>
        \A i \in 1..Len(Results) :
            Results[i].confidence >= 0 /\ Results[i].confidence <= 1000

\* C6: every returned hit is a candidate hit carrying the highest confidence
\* among the candidate hits of its entity, that confidence is >= 50.0, and,
\* when top_k cuts nothing off, an entity is returned exactly when the highest
\* confidence among its candidate hits is >= 50.0.
C6_BestPerEntity ==
    Served =>
        /\ \A i \in 1..Len(Results) :
              /\ \E j \in 1..Len(cands) : CandidateHit(j) = Results[i]
              /\ Results[i].confidence = BestConfidence(Results[i].policy_item_id)
              /\ Results[i].confidence >= 500
        /\ NotTruncated =>
              \A pid \in PolicyIds : Returned(pid) <=> Qualifies(pid)

\* C6 witness: entity X has a qualifying hit of 60.0 followed by one of 80.0
\* and the 80.0 one is returned, while entity Y, whose only hit is below the
\* floor, is not.
C6_Witness ==
    /\ Served
    /\ NotTruncated
    /\ \E i, j \in 1..Len(cands) :
          /\ i < j
          /\ cands[i].pid = "X" /\ CandidateHit(i).confidence = 600
          /\ cands[j].pid = "X" /\ CandidateHit(j).confidence = 800
    /\ \E i \in 1..Len(cands) :
          cands[i].pid = "Y" /\ CandidateHit(i).confidence < 500
    /\ Len(Results) = 1
    /\ Results[1].policy_item_id = "X"
    /\ Results[1].confidence = 800

\* C7: no two hits of a returned list share a policy_item_id.
C7_DistinctEntities ==
    Served =>
        \A i, j \in 1..Len(Results) :
            i # j => Results[i].policy_item_id # Results[j].policy_item_id

\* C7 witness: one entity has three candidates, a qualifying one, a better
\* one that replaces it and one below the floor, and the list returned holds
\* that entity once.
C7_Witness ==
    /\ Served
    /\ NotTruncated
    /\ Len(cands) = 3
    /\ \A i \in 1..3 : cands[i].pid = "X"
    /\ CandidateHit(1).confidence >= 500
    /\ CandidateHit(2).confidence > CandidateHit(1).confidence
    /\ CandidateHit(3).confidence < 500
    /\ Len(Results) = 1

\* C8: a POST /search whose body is not a JSON object, or whose query is
\* missing, empty after trimming or not a string, is answered with 400 and an
\* error field, and leaves the state of the service as it was.
Malformed(body) ==
    \/ body.json # "object"
    \/ body.query.type # "str"
    \/ strip(body.query.val) = ""
C8_ClientError ==
    [][(request = NoRequest /\ request'.kind = "post" /\ Malformed(request'.body))
          => /\ response'.status = 400
             /\ response'.error # ""
             /\ UNCHANGED <<globals, disk, pc>>]_vars

\* C9: the returned list is ordered by non-increasing confidence, and of two
\* returned hits of equal confidence the one whose record comes earlier in the
\* recall order is placed first.
C9_StableRanking ==
    Served =>
        \A i, j \in 1..Len(Results) :
            i < j =>
                /\ Results[i].confidence >= Results[j].confidence
                /\ Results[i].confidence = Results[j].confidence
                      => PosOf(Results[i]) < PosOf(Results[j])

\* C3: every initialization that completes leaves as many embedding vectors
\* as lookup rows.
C3_Aligned == pc = "done" => Val(embeddings) = Val(lookup_df)

\* C4: when one cache file was deleted before start-up, the initialization
\* rebuilds: the embeddings are recomputed and every file the environment
\* supports is on disk again.
C4_DeleteRebuilds ==
    (pc = "done" /\ Cardinality(deleted) = 1) =>
        /\ log = "building"
        /\ exists(EMB_MULTI) /\ exists(LOOKUP_MULTI) /\ exists(META_MULTI)
        /\ FAISS_AVAILABLE => exists(IDX_MULTI)

\* C5: a search called before initialize_model has completed raises the
\* not-initialized error.
C5_NotInitialized ==
    [][(request = NoRequest /\ request'.kind = "call" /\ pc # "done")
          => /\ response'.kind = "raise"
             /\ response'.error = "Model not initialized"]_vars

\* C10: whenever an initialization completes with an index loaded, the index
\* holds as many vectors as embeddings.
C10_IndexMatches ==
    (pc = "done" /\ faiss_index # None) => faiss_index = embeddings

====
